---- MODULE Spec2Model ----
(***************************************************************************)
(* A model of the Netpbm raster canvas (dolobe/Netpbm).  The repository    *)
(* holds two versions of the PPM canvas and its rasterizers:               *)
(*   "part_000": src/unnamed/part_000 (Set and At are bounds-checked)      *)
(*   "part_001": src/unnamed/part_001 (Set indexes the buffer directly)    *)
(* The variable impl says which of the two the behaviour runs.  A Go       *)
(* run-time panic (index out of range, division by zero) is the variable   *)
(* fault; a panic ends the program, so no operation follows it.            *)
(***************************************************************************)
EXTENDS Integers, Sequences, FiniteSets, TLC

VARIABLES
    impl,    \* which source file's PPM the behaviour runs
    width,   \* ppm.width
    height,  \* ppm.height
    max,     \* ppm.max
    data,    \* ppm.data: row y, column x, zero-based
    fault,   \* TRUE once a call has panicked
    op,      \* the last call: its name and its arguments
    pre,     \* width, height and data as they were before the last call
    calls,   \* the cells the last call called Set on, in call order
    nops,    \* the number of calls made so far
    loop,    \* the DrawLine loop of the line specification, one iteration at a time
    rec,     \* the recursion of the fractal specification, one call at a time
    ret      \* the image the last conversion returned

vars == <<impl, width, height, max, data, fault, op, pre, calls, nops, loop, rec, ret>>

(***************************************************************************)
(* Bounds of the model.                                                    *)
(***************************************************************************)
\* the largest side of a canvas of the canvas specification
MaxDim == 3
\* the number of calls in one behaviour of the canvas specification
MaxOps == 2
\* the line specification draws on a LineMax x LineMax canvas with
\* endpoint coordinates in -1..LineMax (so -1 and LineMax lie outside)
LineMax == 3
\* the largest circle radius of the circle specification
MaxRadius == 5
\* the triangle specification draws on a TriMax x TriMax canvas with
\* vertex coordinates in -1..TriMax
TriMax == 4

Impls == {"part_000", "part_001"}

(***************************************************************************)
(* Values.                                                                 *)
(***************************************************************************)
\* Pixel{R, G, B}
Pixel(r, g, b) == <<r, g, b>>

ZeroPixel == Pixel(0, 0, 0)

\* Point{X, Y}
Point(x, y) == [X |-> x, Y |-> y]

Abs(x) == IF x < 0 THEN -x ELSE x

Min(a, b) == IF a < b THEN a ELSE b

Max(a, b) == IF a > b THEN a ELSE b

\* Go's integer division truncates toward zero; b # 0
Quot(a, b) ==
    IF (a >= 0) = (b > 0) THEN Abs(a) \div Abs(b) ELSE -(Abs(a) \div Abs(b))

\* the elements of a sequence
Range(s) == {s[i] : i \in 1..Len(s)}

(***************************************************************************)
(* The canvas.                                                             *)
(***************************************************************************)
\* make([][]Pixel, height), each row make([]Pixel, width)
NewPPM(w, h) == [y \in 0..(h - 1) |-> [x \in 0..(w - 1) |-> ZeroPixel]]

InRange(w, h, x, y) == x >= 0 /\ x < w /\ y >= 0 /\ y < h

\* A canvas under a call: cv = [data, fault, n], n the number of Set calls made.
\* part_000: the write happens only inside [0,width) x [0,height)
Set000(w, h, cv, x, y, value) ==
    IF InRange(w, h, x, y)
    THEN [cv EXCEPT !.data[y][x] = value, !.n = @ + 1]
    ELSE [cv EXCEPT !.n = @ + 1]

\* part_001: ppm.data[y][x] = value; an index out of range panics
Set001(w, h, cv, x, y, value) ==
    IF InRange(w, h, x, y)
    THEN [cv EXCEPT !.data[y][x] = value, !.n = @ + 1]
    ELSE [cv EXCEPT !.fault = TRUE, !.n = @ + 1]

Set(im, w, h, cv, x, y, value) ==
    IF cv.fault THEN cv
    ELSE IF im = "part_000" THEN Set000(w, h, cv, x, y, value)
    ELSE Set001(w, h, cv, x, y, value)

\* The Set calls of a rasterizer, made in order on the canvas; a panic ends them.
RECURSIVE SetAll(_, _, _, _, _, _, _)
SetAll(im, w, h, cv, cells, i, value) ==
    IF i > Len(cells) \/ cv.fault THEN cv
    ELSE SetAll(im, w, h, Set(im, w, h, cv, cells[i].X, cells[i].Y, value),
                cells, i + 1, value)

(***************************************************************************)
(* DrawLine: Bresenham.  The loop state is s = [x, y, dx, dy, sx, sy, err].*)
(***************************************************************************)
\* part_000 lines 280-292
LineInit000(p1, p2) ==
    LET dx == Abs(p2.X - p1.X)
        dy == -Abs(p2.Y - p1.Y)
    IN  [x |-> p1.X, y |-> p1.Y, dx |-> dx, dy |-> dy,
         sx |-> IF p1.X < p2.X THEN 1 ELSE -1,
         sy |-> IF p1.Y < p2.Y THEN 1 ELSE -1,
         err |-> dx + dy]

\* part_000 lines 299-307: one pass of the loop body after the break test
LineStep000(s) ==
    LET e2 == 2 * s.err
        stepx == e2 >= s.dy
        stepy == e2 <= s.dx
        err1 == IF stepx THEN s.err + s.dy ELSE s.err
    IN  [s EXCEPT !.x = IF stepx THEN s.x + s.sx ELSE s.x,
                  !.y = IF stepy THEN s.y + s.sy ELSE s.y,
                  !.err = IF stepy THEN err1 + s.dx ELSE err1]

\* part_001 lines 254-268
LineInit001(p1, p2) ==
    LET dx0 == p2.X - p1.X
        dy0 == p2.Y - p1.Y
        dx == IF dx0 < 0 THEN -dx0 ELSE dx0
        dy == IF dy0 < 0 THEN -dy0 ELSE dy0
    IN  [x |-> p1.X, y |-> p1.Y, dx |-> dx, dy |-> dy,
         sx |-> IF dx0 < 0 THEN -1 ELSE 1,
         sy |-> IF dy0 < 0 THEN -1 ELSE 1,
         err |-> dx - dy]

\* part_001 lines 277-287
LineStep001(s) ==
    LET e2 == 2 * s.err
        stepx == e2 > -s.dy
        stepy == e2 < s.dx
        err1 == IF stepx THEN s.err - s.dy ELSE s.err
    IN  [s EXCEPT !.x = IF stepx THEN s.x + s.sx ELSE s.x,
                  !.y = IF stepy THEN s.y + s.sy ELSE s.y,
                  !.err = IF stepy THEN err1 + s.dx ELSE err1]

LineInit(im, p1, p2) ==
    IF im = "part_000" THEN LineInit000(p1, p2) ELSE LineInit001(p1, p2)

\* a loop body that steps x and y in every pass
LineStep_Both(im, s) == [s EXCEPT !.x = s.x + s.sx, !.y = s.y + s.sy]

LineStep(im, s) ==
    IF im = "part_000" THEN LineStep000(s) ELSE LineStep001(s)

\* the cells DrawLine calls Set on, from loop state s until the break at p2
RECURSIVE LineRun(_, _, _)
LineRun(im, s, p2) ==
    IF s.x = p2.X /\ s.y = p2.Y THEN <<Point(s.x, s.y)>>
    ELSE <<Point(s.x, s.y)>> \o LineRun(im, LineStep(im, s), p2)

DrawLineCells(im, p1, p2) == LineRun(im, LineInit(im, p1, p2), p2)

(***************************************************************************)
(* The rasterizers, each as the result of its call: res = [cells, panic],  *)
(* cells the cells it calls Set on, in call order, and panic whether the   *)
(* rasterizer itself panics after them (an index or a division of its own).*)
(***************************************************************************)
Cells(cells) == [cells |-> cells, panic |-> FALSE]

Panic(cells) == [cells |-> cells, panic |-> TRUE]

DrawLine(im, p1, p2) == Cells(DrawLineCells(im, p1, p2))

\* part_000: the two horizontal sides, then the two vertical sides
DrawRectangle000(p1, w, h) ==
    LET hor == IF w <= 0 THEN <<>>
               ELSE [i \in 1..(2 * w) |->
                        IF i % 2 = 1 THEN Point(p1.X + ((i - 1) \div 2), p1.Y)
                        ELSE Point(p1.X + ((i - 1) \div 2), p1.Y + h - 1)]
        ver == IF h <= 0 THEN <<>>
               ELSE [i \in 1..(2 * h) |->
                        IF i % 2 = 1 THEN Point(p1.X, p1.Y + ((i - 1) \div 2))
                        ELSE Point(p1.X + w - 1, p1.Y + ((i - 1) \div 2))]
    IN  Cells(hor \o ver)

\* part_001: the four sides with DrawLine
DrawRectangle001(p1, w, h) ==
    LET p2 == Point(p1.X + w - 1, p1.Y)
        p3 == Point(p1.X + w - 1, p1.Y + h - 1)
        p4 == Point(p1.X, p1.Y + h - 1)
    IN  Cells(DrawLineCells("part_001", p1, p2) \o DrawLineCells("part_001", p2, p3)
              \o DrawLineCells("part_001", p3, p4) \o DrawLineCells("part_001", p4, p1))

DrawRectangle(im, p1, w, h) ==
    IF im = "part_000" THEN DrawRectangle000(p1, w, h) ELSE DrawRectangle001(p1, w, h)

\* the loops with x <= p1.X+width and y <= p1.Y+height
DrawFilledRectangle_Inclusive(p1, w, h) ==
    IF w < 0 \/ h < 0 THEN Cells(<<>>)
    ELSE Cells([i \in 1..((w + 1) * (h + 1)) |->
                   Point(p1.X + ((i - 1) % (w + 1)), p1.Y + ((i - 1) \div (w + 1)))])

\* the same loops in both versions: rows from p1.Y, columns from p1.X
DrawFilledRectangle(p1, w, h) ==
    IF w <= 0 \/ h <= 0 THEN Cells(<<>>)
    ELSE Cells([i \in 1..(w * h) |->
                   Point(p1.X + ((i - 1) % w), p1.Y + ((i - 1) \div w))])

\* the eight Set calls of one pass of the DrawCircle loop, in the source's order
Octants_Dropped(c, x, y) ==
    << Point(c.X + x, c.Y + y), Point(c.X + y, c.Y + x),
       Point(c.X - y, c.Y + x), Point(c.X - x, c.Y + y),
       Point(c.X - x, c.Y - y), Point(c.X - y, c.Y - x),
       Point(c.X + x, c.Y - y) >>

Octants(c, x, y) ==
    << Point(c.X + x, c.Y + y), Point(c.X + y, c.Y + x),
       Point(c.X - y, c.Y + x), Point(c.X - x, c.Y + y),
       Point(c.X - x, c.Y - y), Point(c.X - y, c.Y - x),
       Point(c.X + y, c.Y - x), Point(c.X + x, c.Y - y) >>

\* part_000: x, y, dx, dy := radius-1, 0, 1, 1; err := dx - (radius * 2)
RECURSIVE CircleLoop000(_, _, _, _, _, _, _)
CircleLoop000(c, radius, x, y, dx, dy, err) ==
    IF x >= y
    THEN LET up == err <= 0
             y1 == IF up THEN y + 1 ELSE y
             err1 == IF up THEN err + dy ELSE err
             dy1 == IF up THEN dy + 2 ELSE dy
             in == err1 > 0
             x1 == IF in THEN x - 1 ELSE x
             dx1 == IF in THEN dx + 2 ELSE dx
             err2 == IF in THEN err1 + dx1 - (radius * 2) ELSE err1
         IN  Octants(c, x, y) \o CircleLoop000(c, radius, x1, y1, dx1, dy1, err2)
    ELSE <<>>

DrawCircle000(c, radius) ==
    Cells(CircleLoop000(c, radius, radius - 1, 0, 1, 1, 1 - (radius * 2)))

\* part_001: x, y, err := radius, 0, 0
RECURSIVE CircleLoop001(_, _, _, _)
CircleLoop001(c, x, y, err) ==
    IF x >= y
    THEN LET up == err <= 0
             y1 == IF up THEN y + 1 ELSE y
             err1 == IF up THEN err + 2 * y1 + 1 ELSE err
             in == err1 > 0
             x1 == IF in THEN x - 1 ELSE x
             err2 == IF in THEN err1 - (2 * x1 + 1) ELSE err1
         IN  Octants(c, x, y) \o CircleLoop001(c, x1, y1, err2)
    ELSE <<>>

DrawCircle001(c, radius) == Cells(CircleLoop001(c, radius, 0, 0))

DrawCircle(im, c, radius) ==
    IF im = "part_000" THEN DrawCircle000(c, radius) ELSE DrawCircle001(c, radius)

\* part_001 only.  Each of the four Set calls of a pass is guarded by its own
\* range test, so only cells of the canvas reach Set.
RECURSIVE FilledCircleLoop(_, _, _, _, _, _)
FilledCircleLoop(c, w, h, x, y, err) ==
    IF x < 0
    THEN LET four == << Point(c.X - x, c.Y + y), Point(c.X - x, c.Y - y),
                        Point(c.X + x, c.Y - y), Point(c.X + x, c.Y + y) >>
             kept == SelectSeq(four, LAMBDA q : InRange(w, h, q.X, q.Y))
             delta1 == 2 * (err + y) - 1
             delta2 == 2 * (err - x) - 1
         IN  kept \o
             (IF err < 0 /\ delta1 <= 0
              THEN FilledCircleLoop(c, w, h, x + 1, y, err + (x + 1) * 2 + 1)
              ELSE IF err > 0 /\ delta2 > 0
              THEN FilledCircleLoop(c, w, h, x, y - 1, err + 1 - (y - 1) * 2)
              ELSE FilledCircleLoop(c, w, h, x + 1, y - 1,
                                    err + (x + 1) * 2 + 1 + 1 - (y - 1) * 2))
    ELSE <<>>

DrawFilledCircle(c, radius, w, h) ==
    Cells(FilledCircleLoop(c, w, h, -radius, 0, 2 - 2 * radius))

\* the three sides with DrawLine, in both versions
DrawTriangle(im, p1, p2, p3) ==
    Cells(DrawLineCells(im, p1, p2) \o DrawLineCells(im, p2, p3)
          \o DrawLineCells(im, p3, p1))

\* part_000: sortPointsByY, three compare-and-swap steps
SortPointsByY(p1, p2, p3) ==
    LET a == IF p1.Y > p2.Y THEN <<p2, p1, p3>> ELSE <<p1, p2, p3>>
        b == IF a[1].Y > a[3].Y THEN <<a[3], a[2], a[1]>> ELSE a
    IN  IF b[2].Y > b[3].Y THEN <<b[1], b[3], b[2]>> ELSE b

\* part_000: interpolate
Interpolate(y, y1, y2, x1, x2) ==
    IF y1 = y2 THEN x1 ELSE x1 + Quot((x2 - x1) * (y - y1), y2 - y1)

\* the cells (x, y), x from lo to hi
Span(lo, hi, y) == IF hi < lo THEN <<>> ELSE [i \in 1..(hi - lo + 1) |-> Point(lo + i - 1, y)]

\* part_000: the two interpolated ends of scanline y
TriangleEnds(q, y) ==
    IF y < q[2].Y
    THEN << Interpolate(y, q[1].Y, q[2].Y, q[1].X, q[2].X),
            Interpolate(y, q[1].Y, q[3].Y, q[1].X, q[3].X) >>
    ELSE << Interpolate(y, q[2].Y, q[3].Y, q[2].X, q[3].X),
            Interpolate(y, q[1].Y, q[3].Y, q[1].X, q[3].X) >>

RECURSIVE TriangleRows(_, _)
TriangleRows(q, y) ==
    IF y <= q[3].Y
    THEN LET e == TriangleEnds(q, y)
         IN  Span(Min(e[1], e[2]), Max(e[1], e[2]), y) \o TriangleRows(q, y + 1)
    ELSE <<>>

DrawFilledTriangle000(p1, p2, p3) ==
    LET q == SortPointsByY(p1, p2, p3) IN Cells(TriangleRows(q, q[1].Y))

\* part_001: the three sides with DrawLine, nothing between them
DrawFilledTriangle001(p1, p2, p3) == DrawTriangle("part_001", p1, p2, p3)

DrawFilledTriangle(im, p1, p2, p3) ==
    IF im = "part_000" THEN DrawFilledTriangle000(p1, p2, p3)
    ELSE DrawFilledTriangle001(p1, p2, p3)

\* the lines points[i] -> points[i+1], i from 1 to Len(points) - 1
RECURSIVE PolygonSides(_, _, _)
PolygonSides(im, points, i) ==
    IF i < Len(points)
    THEN DrawLineCells(im, points[i], points[i + 1]) \o PolygonSides(im, points, i + 1)
    ELSE <<>>

\* part_000: fewer than 3 points draw nothing
DrawPolygon000(points) ==
    IF Len(points) < 3 THEN Cells(<<>>)
    ELSE Cells(PolygonSides("part_000", points, 1)
               \o DrawLineCells("part_000", points[Len(points)], points[1]))

\* part_001: no test of the length; points[len(points)-1] of an empty list panics
DrawPolygon001(points) ==
    IF Len(points) = 0 THEN Panic(<<>>)
    ELSE Cells(PolygonSides("part_001", points, 1)
               \o DrawLineCells("part_001", points[Len(points)], points[1]))

DrawPolygon(im, points) ==
    IF im = "part_000" THEN DrawPolygon000(points) ELSE DrawPolygon001(points)

\* sort.Ints: the sequence in ascending order
RECURSIVE Insert(_, _)
Insert(sorted, v) ==
    IF sorted = <<>> THEN <<v>>
    ELSE IF v <= Head(sorted) THEN <<v>> \o sorted
    ELSE <<Head(sorted)>> \o Insert(Tail(sorted), v)

RECURSIVE SortInts(_)
SortInts(xs) == IF xs = <<>> THEN <<>> ELSE Insert(SortInts(Tail(xs)), Head(xs))

\* the smallest and the largest Y of points[i..], from the given start values
RECURSIVE MinY(_, _, _)
MinY(points, i, m) ==
    IF i > Len(points) THEN m
    ELSE MinY(points, i + 1, IF points[i].Y < m THEN points[i].Y ELSE m)

RECURSIVE MaxY(_, _, _)
MaxY(points, i, m) ==
    IF i > Len(points) THEN m
    ELSE MaxY(points, i + 1, IF points[i].Y > m THEN points[i].Y ELSE m)

\* points[(i+1)%n] of the source, for the 1-based index i
NextPoint(points, i) == points[(i % Len(points)) + 1]

\* part_000: getIntersections(y) before its sort, edges from the i-th on
RECURSIVE GetIntersections(_, _, _)
GetIntersections(points, y, i) ==
    IF i > Len(points) THEN <<>>
    ELSE LET p1 == points[i]
             p2 == NextPoint(points, i)
             hit == /\ p1.Y # p2.Y
                    /\ \/ p1.Y <= y /\ p2.Y > y
                       \/ p1.Y > y /\ p2.Y <= y
         IN  (IF hit
              THEN <<p1.X + Quot((y - p1.Y) * (p2.X - p1.X), p2.Y - p1.Y)>>
              ELSE <<>>) \o GetIntersections(points, y, i + 1)

\* the spans [xs[i], xs[i+1]] of scanline y for i = 1, 3, ... with a partner
RECURSIVE PairedSpans(_, _, _)
PairedSpans(xs, y, i) ==
    IF i + 1 <= Len(xs)
    THEN Span(xs[i], xs[i + 1], y) \o PairedSpans(xs, y, i + 2)
    ELSE <<>>

RECURSIVE PolygonRows000(_, _, _)
PolygonRows000(points, y, maxY) ==
    IF y <= maxY
    THEN PairedSpans(SortInts(GetIntersections(points, y, 1)), y, 1)
         \o PolygonRows000(points, y + 1, maxY)
    ELSE <<>>

\* part_000: points[0] of an empty list panics
DrawFilledPolygon000(points) ==
    IF Len(points) = 0 THEN Panic(<<>>)
    ELSE Cells(PolygonRows000(points, MinY(points, 1, points[1].Y),
                              MaxY(points, 1, points[1].Y)))

\* part_001: findIntersections for one edge.  ints are the per-row lists; the
\* result is [ints, panic], panic for the division by y2 - y1 = 0 after clipping.
RECURSIVE AppendRun(_, _, _, _, _)
AppendRun(ints, y, y2, x, m) ==
    IF y <= y2
    THEN AppendRun([ints EXCEPT ![y] = Append(@, x)], y + 1, y2, x + m, m)
    ELSE ints

FindIntersections(pa, pb, ints, h) ==
    IF pa.Y = pb.Y THEN [ints |-> ints, panic |-> FALSE]
    ELSE LET p1 == IF pa.Y > pb.Y THEN pb ELSE pa
             p2 == IF pa.Y > pb.Y THEN pa ELSE pb
         IN  IF p1.Y >= h \/ p2.Y < 0 THEN [ints |-> ints, panic |-> FALSE]
             ELSE LET x1 == IF p1.Y < 0
                            THEN p1.X + Quot((0 - p1.Y) * (p2.X - p1.X), p2.Y - p1.Y)
                            ELSE p1.X
                      y1 == IF p1.Y < 0 THEN 0 ELSE p1.Y
                      x2 == IF p2.Y >= h
                            THEN p2.X - Quot((p2.Y - h + 1) * (p2.X - x1), p2.Y - y1)
                            ELSE p2.X
                      y2 == IF p2.Y >= h THEN h - 1 ELSE p2.Y
                  IN  IF y2 = y1 THEN [ints |-> ints, panic |-> TRUE]
                      ELSE [ints |-> AppendRun(ints, y1, y2, x1, Quot(x2 - x1, y2 - y1)),
                            panic |-> FALSE]

RECURSIVE FindAll(_, _, _, _)
FindAll(points, i, r, h) ==
    IF i > Len(points) \/ r.panic THEN r
    ELSE FindAll(points, i + 1,
                 FindIntersections(points[i], NextPoint(points, i), r.ints, h), h)

\* DrawLine between the sorted intersections xs[i], xs[i+1] for i = 1, 3, ...
RECURSIVE PairedLines(_, _, _)
PairedLines(xs, y, i) ==
    IF i < Len(xs)
    THEN DrawLineCells("part_001", Point(xs[i], y), Point(xs[i + 1], y))
         \o PairedLines(xs, y, i + 2)
    ELSE <<>>

\* part_001: the rows minY..maxY; intersections[y] for a y outside the canvas panics
RECURSIVE PolygonRows001(_, _, _, _, _)
PolygonRows001(ints, y, maxY, h, acc) ==
    IF y > maxY THEN Cells(acc)
    ELSE IF y < 0 \/ y >= h THEN Panic(acc)
    ELSE PolygonRows001(ints, y + 1, maxY, h,
                        acc \o PairedLines(SortInts(ints[y]), y, 1))

DrawFilledPolygon001(points, h) ==
    LET r == FindAll(points, 1, [ints |-> [y \in 0..(h - 1) |-> <<>>], panic |-> FALSE], h)
    IN  IF r.panic THEN Panic(<<>>)
        ELSE PolygonRows001(r.ints, MinY(points, 1, h), MaxY(points, 1, 0), h, <<>>)

DrawFilledPolygon(im, points, h) ==
    IF im = "part_000" THEN DrawFilledPolygon000(points)
    ELSE DrawFilledPolygon001(points, h)

(***************************************************************************)
(* The transformations of the whole image.                                 *)
(***************************************************************************)
\* a subtraction that stops at 0 where the 8-bit one wraps
Sub8_Saturating(m, v) == IF (m % 256) >= v THEN (m % 256) - v ELSE 0

\* uint8(ppm.max) - v in 8-bit arithmetic
Sub8(m, v) == ((m % 256) - v + 256) % 256

\* the same assignment to every pixel in both versions
Invert(d, m) ==
    [y \in DOMAIN d |-> [x \in DOMAIN d[y] |->
        Pixel(Sub8(m, d[y][x][1]), Sub8(m, d[y][x][2]), Sub8(m, d[y][x][3]))]]

\* part_000: for x < width/2, exchange row[x] and row[width-1-x]
RECURSIVE FlipRow000(_, _, _)
FlipRow000(row, w, x) ==
    IF x < Quot(w, 2)
    THEN FlipRow000([row EXCEPT ![x] = row[w - 1 - x], ![w - 1 - x] = row[x]], w, x + 1)
    ELSE row

\* a loop that copies row[x2] to row[x1] and leaves row[x2] as it is
RECURSIVE FlipRow001_Copy(_, _, _)
FlipRow001_Copy(row, x1, x2) ==
    IF x1 < x2
    THEN FlipRow001_Copy([row EXCEPT ![x1] = row[x2]], x1 + 1, x2 - 1)
    ELSE row

\* part_001: x1, x2 := 0, width-1; exchange while x1 < x2
RECURSIVE FlipRow001(_, _, _)
FlipRow001(row, x1, x2) ==
    IF x1 < x2
    THEN FlipRow001([row EXCEPT ![x1] = row[x2], ![x2] = row[x1]], x1 + 1, x2 - 1)
    ELSE row

Flip(im, d, w) ==
    [y \in DOMAIN d |->
        IF im = "part_000" THEN FlipRow000(d[y], w, 0) ELSE FlipRow001(d[y], 0, w - 1)]

\* part_000: in column x, for y < height/2, exchange the pixels of rows y, height-1-y
RECURSIVE FlopCol000(_, _, _, _)
FlopCol000(d, h, x, y) ==
    IF y < Quot(h, 2)
    THEN FlopCol000([d EXCEPT ![y][x] = d[h - 1 - y][x], ![h - 1 - y][x] = d[y][x]],
                    h, x, y + 1)
    ELSE d

RECURSIVE Flop000(_, _, _, _)
Flop000(d, w, h, x) ==
    IF x < w THEN Flop000(FlopCol000(d, h, x, 0), w, h, x + 1) ELSE d

\* part_001: y1, y2 := 0, height-1; exchange the rows while y1 < y2
RECURSIVE Flop001(_, _, _)
Flop001(d, y1, y2) ==
    IF y1 < y2
    THEN Flop001([d EXCEPT ![y1] = d[y2], ![y2] = d[y1]], y1 + 1, y2 - 1)
    ELSE d

Flop(im, d, w, h) ==
    IF im = "part_000" THEN Flop000(d, w, h, 0) ELSE Flop001(d, 0, h - 1)

\* part_001 only: newPPM.data[x][height-y-1] = data[y][x] on NewPPM(height, width),
\* then width, height and data are those of newPPM
Rotate90CW_NoSwap(d, w, h) ==
    [width |-> w, height |-> h,
     data |-> [r \in 0..(w - 1) |-> [c \in 0..(h - 1) |-> d[h - 1 - c][r]]]]

\* the rotation in the other direction: newPPM.data[width-x-1][y] = data[y][x]
Rotate90CW_Counter(d, w, h) ==
    [width |-> h, height |-> w,
     data |-> [r \in 0..(w - 1) |-> [c \in 0..(h - 1) |-> d[c][w - 1 - r]]]]

Rotate90CW(d, w, h) ==
    [width |-> h, height |-> w,
     data |-> [r \in 0..(w - 1) |-> [c \in 0..(h - 1) |-> d[h - 1 - c][r]]]]

\* NewPBM(width, height): every bit false
NewPBM(w, h) == [y \in 0..(h - 1) |-> [x \in 0..(w - 1) |-> FALSE]]

\* part_001: ToPBM.  The loops run "for y := 0; y > ppm.height" and
\* "for x := 0; x > ppm.width": the body is reached for (x, y) only if
\* 0 > height and 0 > width.
ToPBM(d, w, h) ==
    [width |-> w, height |-> h,
     data |-> [y \in 0..(h - 1) |-> [x \in 0..(w - 1) |->
                 IF 0 > h /\ 0 > w
                 THEN d[y][x][1] # 0 \/ d[y][x][2] # 0 \/ d[y][x][3] # 0
                 ELSE NewPBM(w, h)[y][x]]]]

(***************************************************************************)
(* The record of a call, and the values of the variables a specification   *)
(* does not use.                                                           *)
(***************************************************************************)
\* a call: its name, its points, its two integer arguments and its colour
Call(name, pts, a, b, color) ==
    [name |-> name, pts |-> pts, a |-> a, b |-> b, color |-> color]

NoCall == Call("NewPPM", <<>>, 0, 0, ZeroPixel)

NoLoop == [pc |-> "idle", p1 |-> Point(0, 0), p2 |-> Point(0, 0),
           s |-> LineInit001(Point(0, 0), Point(0, 0))]

Snapshot == [width |-> width, height |-> height, data |-> data]

\* no conversion has returned
NoRet == [width |-> 0, height |-> 0, data |-> <<>>]

\* no fractal call in progress: no pending call, no primitive drawn
NoRec == [pc |-> "idle", stack |-> <<>>, drawn |-> <<>>, entered |-> 0]

(***************************************************************************)
(* The canvas specification: a canvas from NewPPM (in part_000, the buffer *)
(* ReadPPM allocates), then up to MaxOps calls.                            *)
(***************************************************************************)
Dims == {0, MaxDim - 1, MaxDim}

\* points of the calls: inside and outside of the canvases
Points ==
    { Point(-1, 0), Point(0, 0), Point(1, MaxDim - 1), Point(MaxDim, 1),
      Point(MaxDim - 1, MaxDim - 1) }

\* second points for a first point
Others(p) == {Point(p.Y, p.X), Point(p.X + 2, p.Y + 1)}

\* width and height of the rectangles
Extents == {<<2, 2>>, <<0, 1>>, <<MaxDim, 1>>}

Radii == {0, 1}

Color == Pixel(255, 0, 0)

Colors == {Color, Pixel(1, 2, 3)}

PointLists ==
    { <<>>,
      <<Point(0, 0)>>,
      <<Point(0, 0), Point(1, 1)>>,
      <<Point(0, 0), Point(MaxDim - 1, 0), Point(0, MaxDim - 1)>>,
      <<Point(0, 0), Point(1, 0), Point(1, 1), Point(0, 1)>>,
      <<Point(1, -1), Point(MaxDim, 1), Point(0, MaxDim)>> }

Init ==
    /\ impl \in Impls
    /\ width \in Dims
    /\ height \in Dims
    /\ max = 255
    /\ data = NewPPM(width, height)
    /\ fault = FALSE
    /\ op = NoCall
    /\ pre = [width |-> width, height |-> height, data |-> NewPPM(width, height)]
    /\ calls = <<>>
    /\ nops = 0
    /\ loop = NoLoop
    /\ rec = NoRec
    /\ ret = NoRet

CanCall == ~fault /\ nops < MaxOps /\ loop.pc = "idle"

\* a call whose effect is the Set calls of res, then the panic of res if any
Draw(name, pts, a, b, color, res) ==
    LET cv == SetAll(impl, width, height,
                     [data |-> data, fault |-> FALSE, n |-> 0], res.cells, 1, color)
    IN  /\ CanCall
        /\ op' = Call(name, pts, a, b, color)
        /\ pre' = Snapshot
        /\ data' = cv.data
        /\ fault' = (cv.fault \/ res.panic)
        /\ calls' = SubSeq(res.cells, 1, cv.n)
        /\ nops' = nops + 1
        /\ UNCHANGED <<impl, width, height, max, loop, rec, ret>>

\* a call that replaces the image and calls Set on no cell of a caller's choice
Transform(name, img) ==
    /\ CanCall
    /\ op' = Call(name, <<>>, 0, 0, ZeroPixel)
    /\ pre' = Snapshot
    /\ width' = img.width
    /\ height' = img.height
    /\ data' = img.data
    /\ calls' = <<>>
    /\ nops' = nops + 1
    /\ UNCHANGED <<impl, max, fault, loop, rec, ret>>

DoSet(x, y, color) ==
    Draw("Set", <<Point(x, y)>>, 0, 0, color, Cells(<<Point(x, y)>>))

DoDrawLine(p1, p2, color) ==
    Draw("DrawLine", <<p1, p2>>, 0, 0, color, DrawLine(impl, p1, p2))

DoDrawRectangle(p1, w, h, color) ==
    Draw("DrawRectangle", <<p1>>, w, h, color, DrawRectangle(impl, p1, w, h))

DoDrawFilledRectangle(p1, w, h, color) ==
    Draw("DrawFilledRectangle", <<p1>>, w, h, color, DrawFilledRectangle(p1, w, h))

DoDrawCircle(c, radius, color) ==
    Draw("DrawCircle", <<c>>, radius, 0, color, DrawCircle(impl, c, radius))

DoDrawFilledCircle(c, radius, color) ==
    /\ impl = "part_001"
    /\ Draw("DrawFilledCircle", <<c>>, radius, 0, color,
            DrawFilledCircle(c, radius, width, height))

DoDrawTriangle(p1, p2, p3, color) ==
    Draw("DrawTriangle", <<p1, p2, p3>>, 0, 0, color, DrawTriangle(impl, p1, p2, p3))

DoDrawFilledTriangle(p1, p2, p3, color) ==
    Draw("DrawFilledTriangle", <<p1, p2, p3>>, 0, 0, color,
         DrawFilledTriangle(impl, p1, p2, p3))

DoDrawPolygon(points, color) ==
    Draw("DrawPolygon", points, 0, 0, color, DrawPolygon(impl, points))

DoDrawFilledPolygon(points, color) ==
    Draw("DrawFilledPolygon", points, 0, 0, color,
         DrawFilledPolygon(impl, points, height))

DoInvert ==
    Transform("Invert", [width |-> width, height |-> height, data |-> Invert(data, max)])

DoFlip ==
    Transform("Flip", [width |-> width, height |-> height, data |-> Flip(impl, data, width)])

DoFlop ==
    Transform("Flop",
              [width |-> width, height |-> height, data |-> Flop(impl, data, width, height)])

DoRotate90CW ==
    /\ impl = "part_001"
    /\ Transform("Rotate90CW", Rotate90CW(data, width, height))

\* part_001: ToPBM returns a new image and leaves the canvas as it is
DoToPBM ==
    /\ impl = "part_001"
    /\ CanCall
    /\ op' = Call("ToPBM", <<>>, 0, 0, ZeroPixel)
    /\ pre' = Snapshot
    /\ calls' = <<>>
    /\ nops' = nops + 1
    /\ ret' = ToPBM(data, width, height)
    /\ UNCHANGED <<impl, width, height, max, data, fault, loop, rec>>

Next ==
    \/ \E p \in Points, c \in Colors : DoSet(p.X, p.Y, c)
    \/ \E p1 \in Points : \E p2 \in Others(p1) : DoDrawLine(p1, p2, Color)
    \/ \E p \in Points, e \in Extents : DoDrawRectangle(p, e[1], e[2], Color)
    \/ \E p \in Points, e \in Extents : DoDrawFilledRectangle(p, e[1], e[2], Color)
    \/ \E p \in Points, r \in Radii : DoDrawCircle(p, r, Color)
    \/ \E p \in Points, r \in Radii : DoDrawFilledCircle(p, r, Color)
    \/ \E p1 \in Points :
          DoDrawTriangle(p1, Point(p1.X + 2, p1.Y), Point(p1.X, p1.Y + 2), Color)
    \/ \E p1 \in Points :
          DoDrawFilledTriangle(p1, Point(p1.X + 2, p1.Y), Point(p1.X, p1.Y + 2), Color)
    \/ \E ps \in PointLists : DoDrawPolygon(ps, Color)
    \/ \E ps \in PointLists : DoDrawFilledPolygon(ps, Color)
    \/ DoInvert
    \/ DoFlip
    \/ DoFlop
    \/ DoRotate90CW
    \/ DoToPBM

Spec == Init /\ [][Next]_vars

\* the cells of a w x h canvas
CanvasCells(w, h) == {Point(x, y) : x \in 0..(w - 1), y \in 0..(h - 1)}

\* the pixels the last call changed
Changed == {p \in CanvasCells(width, height) : data[p.Y][p.X] # pre.data[p.Y][p.X]}

\* C2: Set(x, y, value) outside [0,width) x [0,height) completes without fault
\* and leaves every pixel unchanged; inside, pixel (x, y) becomes value and every
\* other pixel, the width and the height are unchanged.
C2_SetFrame ==
    op.name = "Set" =>
        LET p == op.pts[1]
        IN  /\ ~fault
            /\ width = pre.width
            /\ height = pre.height
            /\ IF InRange(pre.width, pre.height, p.X, p.Y)
               THEN data = [pre.data EXCEPT ![p.Y][p.X] = op.color]
               ELSE data = pre.data

\* what holds of C2 in part_000, whose Set tests the range
C2_SetFrame000 == impl = "part_000" => C2_SetFrame

Rasterizers ==
    { "DrawLine", "DrawRectangle", "DrawFilledRectangle", "DrawCircle",
      "DrawFilledCircle", "DrawTriangle", "DrawFilledTriangle", "DrawPolygon",
      "DrawFilledPolygon", "DrawKochSnowflake", "DrawSierpinskiTriangle" }

\* the call has a point outside the canvas, or an extent or a radius that
\* reaches outside of it
ReachesOutside ==
    \E i \in 1..Len(op.pts) :
        LET p == op.pts[i]
        IN  \/ ~InRange(pre.width, pre.height, p.X, p.Y)
            \/ ~InRange(pre.width, pre.height, p.X + Abs(op.a), p.Y + Abs(op.b))
            \/ op.name \in {"DrawCircle", "DrawFilledCircle"}
               /\ \/ ~InRange(pre.width, pre.height, p.X - op.a, p.Y - op.a)
                  \/ ~InRange(pre.width, pre.height, p.X + op.a, p.Y + op.a)

\* C3: every rasterizer, called with geometry whose coordinates are negative or
\* exceed the canvas, completes without an out-of-range index fault and changes
\* only pixels inside [0,width) x [0,height).
C3_RasterizersClip ==
    op.name \in Rasterizers /\ ReachesOutside =>
        /\ ~fault
        /\ width = pre.width
        /\ height = pre.height
        /\ DOMAIN data = DOMAIN pre.data
        /\ \A y \in DOMAIN data : DOMAIN data[y] = DOMAIN pre.data[y]

\* what holds of C3 in part_000, whose rasterizers all draw through its Set
C3_RasterizersClip000 == impl = "part_000" => C3_RasterizersClip

\* C4: after any sequence of canvas operations from NewPPM(w, h), the buffer has
\* exactly height rows, and every row has exactly width elements.
C4_BufferShape ==
    /\ DOMAIN data = 0..(height - 1)
    /\ \A y \in DOMAIN data : DOMAIN data[y] = 0..(width - 1)

\* a drawing call and then Rotate90CW on a canvas that is not square: the
\* rows and the columns have changed places
C4_Witness ==
    /\ nops = 2
    /\ op.name = "Rotate90CW"
    /\ pre.width # pre.height
    /\ pre.width > 0
    /\ pre.height > 0
    /\ pre.data # NewPPM(pre.width, pre.height)
    /\ width = pre.height
    /\ height = pre.width

(***************************************************************************)
(* The line specification: DrawLine, one loop iteration per step.          *)
(***************************************************************************)
\* a guard on the number of iterations the model follows
LineCap == 12

LineCoords == (-1)..LineMax

LinePoints == {Point(x, y) : x \in LineCoords, y \in LineCoords}

InitLine ==
    /\ impl \in Impls
    /\ width = LineMax
    /\ height = LineMax
    /\ max = 255
    /\ data = NewPPM(LineMax, LineMax)
    /\ fault = FALSE
    /\ op = NoCall
    /\ pre = [width |-> LineMax, height |-> LineMax, data |-> NewPPM(LineMax, LineMax)]
    /\ calls = <<>>
    /\ nops = 0
    /\ loop = NoLoop
    /\ rec = NoRec
    /\ ret = NoRet

\* the call and the statements before the loop
LineEnter(p1, p2, color) ==
    /\ loop.pc = "idle"
    /\ ~fault
    /\ op' = Call("DrawLine", <<p1, p2>>, 0, 0, color)
    /\ pre' = Snapshot
    /\ calls' = <<>>
    /\ nops' = nops + 1
    /\ loop' = [pc |-> "loop", p1 |-> p1, p2 |-> p2, s |-> LineInit(impl, p1, p2)]
    /\ UNCHANGED <<impl, width, height, max, data, fault, rec, ret>>

\* one iteration: Set, the break test, the two steps
LineIter ==
    /\ loop.pc = "loop"
    /\ Len(calls) < LineCap
    /\ LET s == loop.s
           cv == Set(impl, width, height, [data |-> data, fault |-> FALSE, n |-> 0],
                     s.x, s.y, op.color)
       IN  /\ data' = cv.data
           /\ fault' = cv.fault
           /\ calls' = Append(calls, Point(s.x, s.y))
           /\ loop' = IF cv.fault THEN [loop EXCEPT !.pc = "panic"]
                      ELSE IF s.x = loop.p2.X /\ s.y = loop.p2.Y
                           THEN [loop EXCEPT !.pc = "done"]
                      ELSE [loop EXCEPT !.s = LineStep(impl, s)]
    /\ UNCHANGED <<impl, width, height, max, op, pre, nops, rec, ret>>

NextLine ==
    \/ \E p1 \in LinePoints, p2 \in LinePoints : LineEnter(p1, p2, Color)
    \/ LineIter

SpecLine == InitLine /\ [][NextLine]_vars

\* the loop has been left, by its break or by a panic
LineLeft == loop.pc \in {"done", "panic"}

\* the sequence of cells is a path from p1 to p2: it starts at p1, ends at p2,
\* moves by at most 1 in x and in y, has max(|dx|,|dy|) + 1 cells, none twice
IsLinePath(path, p1, p2) ==
    /\ Len(path) = Max(Abs(p2.X - p1.X), Abs(p2.Y - p1.Y)) + 1
    /\ path[1] = p1
    /\ path[Len(path)] = p2
    /\ \A i \in 1..(Len(path) - 1) :
          /\ Abs(path[i + 1].X - path[i].X) <= 1
          /\ Abs(path[i + 1].Y - path[i].Y) <= 1
    /\ \A i \in 1..Len(path) : \A j \in 1..Len(path) : path[i] = path[j] => i = j

\* C1: for any two integer points DrawLine calls Set on a path from p1 to p2
\* (starts at p1, ends at p2, steps of at most 1, max(|dx|,|dy|)+1 cells, no
\* cell twice); DrawLine(p, p) calls Set on the one cell p.
C1_DrawLinePath ==
    LineLeft =>
        /\ IsLinePath(calls, loop.p1, loop.p2)
        /\ (loop.p1 = loop.p2 => calls = <<loop.p1>>)

\* what holds of C1 in both versions: a DrawLine that returns has called Set on
\* such a path
C1_PathWhenReturned ==
    loop.pc = "done" => IsLinePath(calls, loop.p1, loop.p2)

\* C5: the DrawLine loop terminates, and it is left at the first iteration in
\* which the current point equals p2: it is not left before, it does not step
\* past p2, and no iteration leaves both x and y where they were.
C5_LoopEndsAtP2 ==
    /\ Len(calls) <= Max(Abs(loop.p2.X - loop.p1.X), Abs(loop.p2.Y - loop.p1.Y)) + 1
    /\ \A i \in 1..(Len(calls) - 1) : calls[i] # calls[i + 1] /\ calls[i] # loop.p2
    /\ (LineLeft => loop.s.x = loop.p2.X /\ loop.s.y = loop.p2.Y)
    /\ (loop.pc = "loop" /\ calls # <<>> =>
           Point(loop.s.x, loop.s.y) # calls[Len(calls)])

\* what holds of C5 in both versions once the panic of Set is set aside
C5_EndsAtP2WhenReturned ==
    /\ Len(calls) <= Max(Abs(loop.p2.X - loop.p1.X), Abs(loop.p2.Y - loop.p1.Y)) + 1
    /\ \A i \in 1..(Len(calls) - 1) : calls[i] # calls[i + 1] /\ calls[i] # loop.p2
    /\ (loop.pc = "done" => loop.s.x = loop.p2.X /\ loop.s.y = loop.p2.Y)

(***************************************************************************)
(* The circle specification: one DrawCircle or DrawFilledCircle on a fresh *)
(* canvas that holds a circle of the largest radius around its middle.     *)
(***************************************************************************)
CircleSide == 2 * MaxRadius + 1

InitCircle ==
    /\ impl \in Impls
    /\ width = CircleSide
    /\ height = CircleSide
    /\ max = 255
    /\ data = NewPPM(CircleSide, CircleSide)
    /\ fault = FALSE
    /\ op = NoCall
    /\ pre = [width |-> CircleSide, height |-> CircleSide,
              data |-> NewPPM(CircleSide, CircleSide)]
    /\ calls = <<>>
    /\ nops = 0
    /\ loop = NoLoop
    /\ rec = NoRec
    /\ ret = NoRet

NextCircle ==
    \/ /\ nops = 0
       /\ \E c \in CanvasCells(CircleSide, CircleSide), r \in 0..MaxRadius :
             DoDrawCircle(c, r, Color)
    \/ /\ nops = 0
       /\ \E c \in CanvasCells(CircleSide, CircleSide), r \in 0..MaxRadius :
             DoDrawFilledCircle(c, r, Color)

SpecCircle == InitCircle /\ [][NextCircle]_vars

\* the circle of radius r around c lies inside the canvas
Fits(c, r) ==
    /\ InRange(width, height, c.X - r, c.Y - r)
    /\ InRange(width, height, c.X + r, c.Y + r)

\* the eight midpoint-circle reflections of the offset (dx, dy) around c
Reflections(c, dx, dy) ==
    { Point(c.X + dx, c.Y + dy), Point(c.X - dx, c.Y + dy),
      Point(c.X + dx, c.Y - dy), Point(c.X - dx, c.Y - dy),
      Point(c.X + dy, c.Y + dx), Point(c.X - dy, c.Y + dx),
      Point(c.X + dy, c.Y - dx), Point(c.X - dy, c.Y - dx) }

\* C6: on a canvas that contains the circle, the pixels DrawCircle(c, r) sets
\* are closed under the 8 reflections: with (c.x+dx, c.y+dy) also
\* (c.x+-dx, c.y+-dy) and (c.x+-dy, c.y+-dx) are set.
C6_CircleSymmetric ==
    op.name = "DrawCircle" /\ op.a >= 0 /\ Fits(op.pts[1], op.a) =>
        /\ ~fault
        /\ \A p \in Changed :
              Reflections(op.pts[1], p.X - op.pts[1].X, p.Y - op.pts[1].Y) \subseteq Changed

\* a circle with more than its four axis pixels has been drawn inside the canvas
C6_Witness ==
    /\ op.name = "DrawCircle"
    /\ op.a >= 2
    /\ Fits(op.pts[1], op.a)
    /\ ~fault
    /\ Cardinality(Changed) >= 8
    /\ \E p \in Changed : Abs(p.X - op.pts[1].X) # Abs(p.Y - op.pts[1].Y)
                          /\ p.X # op.pts[1].X /\ p.Y # op.pts[1].Y

\* C7: DrawCircle(c, 0) with c inside the canvas sets exactly one pixel, the
\* centre c.
C7_RadiusZeroOnePixel ==
    op.name = "DrawCircle" /\ op.a = 0
    /\ InRange(width, height, op.pts[1].X, op.pts[1].Y) =>
        ~fault /\ Changed = {op.pts[1]}

\* what holds of C7 in part_001
C7_RadiusZero001 == impl = "part_001" => C7_RadiusZeroOnePixel

\* the x of the pixels of S on scanline y
RowXs(S, y) == {p.X : p \in {q \in S : q.Y = y}}

SetMin(S) == CHOOSE x \in S : \A z \in S : x <= z

SetMax(S) == CHOOSE x \in S : \A z \in S : x >= z

\* C8: for r >= 1, after DrawFilledCircle(c, r) every pixel of the canvas between
\* the leftmost and the rightmost pixel the call set on a scanline is set: each
\* scanline of the filled circle is one span without a hole.
C8_FilledSpans ==
    op.name = "DrawFilledCircle" /\ op.a >= 1 =>
        \A y \in 0..(height - 1) :
            LET xs == RowXs(Changed, y)
            IN  xs # {} => \A x \in SetMin(xs)..SetMax(xs) : x \in xs

\* the pixels DrawCircle(c, r) changes on the canvas the last call found
OutlineOf(c, r) ==
    LET cv == SetAll(impl, pre.width, pre.height,
                     [data |-> pre.data, fault |-> FALSE, n |-> 0],
                     DrawCircle(impl, c, r).cells, 1, op.color)
    IN  {p \in CanvasCells(pre.width, pre.height) : cv.data[p.Y][p.X] # pre.data[p.Y][p.X]}

\* C9: for r >= 0 every pixel DrawCircle(c, r) sets is set by
\* DrawFilledCircle(c, r) too, and on every scanline the leftmost and the
\* rightmost pixels of the two coincide.
C9_OutlineInFill ==
    op.name = "DrawFilledCircle" /\ op.a >= 0 =>
        LET outline == OutlineOf(op.pts[1], op.a)
        IN  /\ outline \subseteq Changed
            /\ \A y \in 0..(height - 1) :
                  LET xo == RowXs(outline, y)
                      xf == RowXs(Changed, y)
                  IN  /\ (xo = {}) = (xf = {})
                      /\ xo # {} => SetMin(xo) = SetMin(xf) /\ SetMax(xo) = SetMax(xf)

(***************************************************************************)
(* The triangle specification: one DrawFilledTriangle on a fresh canvas,   *)
(* the vertices inside the canvas and one step outside of it.              *)
(***************************************************************************)
TriCoords == (-1)..TriMax

TriPoints == {Point(x, y) : x \in TriCoords, y \in TriCoords}

InitTriangle ==
    /\ impl \in Impls
    /\ width = TriMax
    /\ height = TriMax
    /\ max = 255
    /\ data = NewPPM(TriMax, TriMax)
    /\ fault = FALSE
    /\ op = NoCall
    /\ pre = [width |-> TriMax, height |-> TriMax, data |-> NewPPM(TriMax, TriMax)]
    /\ calls = <<>>
    /\ nops = 0
    /\ loop = NoLoop
    /\ rec = NoRec
    /\ ret = NoRet

NextTriangle ==
    /\ nops = 0
    /\ \E p1 \in TriPoints, p2 \in TriPoints, p3 \in TriPoints :
          DoDrawFilledTriangle(p1, p2, p3, Color)

SpecTriangle == InitTriangle /\ [][NextTriangle]_vars

\* the x on the edge a -> b at scanline y, by integer interpolation; an edge of
\* height zero gives a.X
EdgeX(a, b, y) ==
    IF a.Y = b.Y THEN a.X ELSE a.X + Quot((b.X - a.X) * (y - a.Y), b.Y - a.Y)

\* the spans of the claim for the vertices top, mid, bottom in ascending y
TriangleSpans(top, mid, bottom) ==
    UNION { LET xr == EdgeX(top, bottom, y)
                xl == IF y < mid.Y THEN EdgeX(top, mid, y) ELSE EdgeX(mid, bottom, y)
            IN  {Point(x, y) : x \in Min(xl, xr)..Max(xl, xr)} : y \in top.Y..bottom.Y }

\* C10: for any three vertices DrawFilledTriangle completes without division by
\* zero and sets, on every scanline from the smallest to the largest vertex y,
\* exactly the span [min(xl, xr), max(xl, xr)], xr interpolated along the
\* top-to-bottom edge, xl along the top-middle edge above the middle vertex and
\* along the middle-bottom edge from it on; no pixel outside the spans is set.
C10_FilledTriangleSpans ==
    op.name = "DrawFilledTriangle" =>
        LET q == SortPointsByY(op.pts[1], op.pts[2], op.pts[3])
            spans == TriangleSpans(q[1], q[2], q[3])
        IN  /\ ~fault
            /\ Range(calls) = spans
            /\ Changed = {p \in spans : InRange(width, height, p.X, p.Y)}

\* C10 on vertices inside the canvas, where no Set call is out of range:
\* DrawFilledTriangle completes and calls Set on exactly the cells of the
\* spans [min(xl, xr), max(xl, xr)] of the scanlines from the smallest to the
\* largest vertex y, and changes exactly those pixels.
C10_FilledTriangleInside ==
    (\A i \in 1..Len(op.pts) : InRange(width, height, op.pts[i].X, op.pts[i].Y))
        => C10_FilledTriangleSpans

\* what holds of C10 in part_000, the version with the scanline fill
C10_FilledTriangleSpans000 == impl = "part_000" => C10_FilledTriangleSpans

\* part_001 on vertices inside the canvas: the call returns and an inner pixel
\* of a span is left as it was
C10_Unfilled001 ==
    /\ impl = "part_001"
    /\ op.name = "DrawFilledTriangle"
    /\ ~fault
    /\ \E p \in TriangleSpans(SortPointsByY(op.pts[1], op.pts[2], op.pts[3])[1],
                              SortPointsByY(op.pts[1], op.pts[2], op.pts[3])[2],
                              SortPointsByY(op.pts[1], op.pts[2], op.pts[3])[3]) :
          InRange(width, height, p.X, p.Y) /\ p \notin Changed

(***************************************************************************)
(* The polygon specification: one DrawPolygon or one DrawFilledPolygon on  *)
(* a fresh PolyMax x PolyMax canvas, the vertices inside the canvas.       *)
(***************************************************************************)
\* the side of the canvas of the polygon specification
PolyMax == 4

PolyCoords == 0..(PolyMax - 1)

PolyPoints == {Point(x, y) : x \in PolyCoords, y \in PolyCoords}

\* the vertex lists of length 0 to n
PolyLists(n) == UNION {[1..k -> PolyPoints] : k \in 0..n}

InitPolygon ==
    /\ impl \in Impls
    /\ width = PolyMax
    /\ height = PolyMax
    /\ max = 255
    /\ data = NewPPM(PolyMax, PolyMax)
    /\ fault = FALSE
    /\ op = NoCall
    /\ pre = [width |-> PolyMax, height |-> PolyMax, data |-> NewPPM(PolyMax, PolyMax)]
    /\ calls = <<>>
    /\ nops = 0
    /\ loop = NoLoop
    /\ rec = NoRec
    /\ ret = NoRet

NextPolygon ==
    \/ /\ nops = 0
       /\ \E points \in PolyLists(3) : DoDrawPolygon(points, Color)
    \/ /\ nops = 0
       /\ \E points \in PolyLists(4) : DoDrawFilledPolygon(points, Color)

SpecPolygon == InitPolygon /\ [][NextPolygon]_vars

\* the edges of a vertex list: points[i] -> points[i+1], the last to the first
EdgesOf(points) ==
    {<<points[i], points[(i % Len(points)) + 1]>> : i \in 1..Len(points)}

\* the vertical extent of a non-empty vertex list
ExtentY(points) ==
    LET ys == {points[i].Y : i \in 1..Len(points)}
    IN  (CHOOSE a \in ys : \A b \in ys : a <= b)..(CHOOSE a \in ys : \A b \in ys : a >= b)

\* the edge numbers whose edge meets scanline y by the half-open test
HalfOpenEdges(points, y) ==
    {i \in 1..Len(points) :
        LET y1 == points[i].Y
            y2 == points[(i % Len(points)) + 1].Y
        IN  (y1 <= y /\ y < y2) \/ (y2 <= y /\ y < y1)}

\* the x of edge i at scanline y, by integer interpolation from its first point
HalfOpenX(points, i, y) ==
    EdgeX(points[i], points[(i % Len(points)) + 1], y)

\* the k-th smallest (k from 1) intersection of scanline y, ties in edge order
RankedX(points, y, k) ==
    LET E == HalfOpenEdges(points, y)
        before(i, j) == \/ HalfOpenX(points, i, y) < HalfOpenX(points, j, y)
                        \/ HalfOpenX(points, i, y) = HalfOpenX(points, j, y) /\ i < j
        e == CHOOSE i \in E : Cardinality({j \in E : before(j, i)}) = k - 1
    IN  HalfOpenX(points, e, y)

\* the pixels of the claim's spans: [x_i, x_{i+1}] for even i (from 0) over the
\* sorted intersections; an unpaired last intersection gives no span
EvenOddSpans(points) ==
    UNION { UNION { {Point(x, y) : x \in RankedX(points, y, 2 * j - 1)..RankedX(points, y, 2 * j)}
                    : j \in 1..(Cardinality(HalfOpenEdges(points, y)) \div 2) }
            : y \in ExtentY(points) }

\* C11: for any vertex list of length >= 3 DrawFilledPolygon completes and
\* sets, on each scanline of the polygon's vertical extent, exactly the pixels
\* of the spans [x_i, x_{i+1}], i even, of the ascending intersections with the
\* edges that pass the half-open test; horizontal edges give no intersection
\* and an odd last intersection gives no span.
C11_FilledPolygonSpans ==
    (op.name = "DrawFilledPolygon" /\ Len(op.pts) >= 3) =>
        /\ ~fault
        /\ Changed = EvenOddSpans(op.pts)

\* what holds of C11 in part_000, whose getIntersections has the half-open test
C11_FilledPolygonSpans000 == impl = "part_000" => C11_FilledPolygonSpans

\* C12: DrawPolygon and DrawFilledPolygon with 0, 1 or 2 vertices complete
\* without fault and leave every pixel as it was.
C12_FewVerticesNoDrawing ==
    (op.name \in {"DrawPolygon", "DrawFilledPolygon"} /\ Len(op.pts) < 3) =>
        /\ ~fault
        /\ data = pre.data

\* what holds of C12: DrawPolygon of part_000 returns at n < 3
C12_DrawPolygon000 ==
    (impl = "part_000" /\ op.name = "DrawPolygon") => C12_FewVerticesNoDrawing

\* the cross product of the turn at vertex i
Turn(points, i) ==
    LET n == Len(points)
        a == points[i]
        b == points[(i % n) + 1]
        c == points[((i + 1) % n) + 1]
    IN  (b.X - a.X) * (c.Y - b.Y) - (b.Y - a.Y) * (c.X - b.X)

\* every turn of the vertex list goes the same way, none is straight
IsConvex(points) ==
    /\ Len(points) >= 3
    /\ \/ \A i \in 1..Len(points) : Turn(points, i) > 0
       \/ \A i \in 1..Len(points) : Turn(points, i) < 0

\* the points where the edges meet scanline y, as fractions <<num, den>>, den > 0;
\* an edge lying on the scanline meets it in its two ends
Meets(points, y) ==
    UNION { LET a == e[1]
                b == e[2]
                lo == IF a.Y < b.Y THEN a ELSE b
                hi == IF a.Y < b.Y THEN b ELSE a
            IN  IF a.Y = b.Y
                THEN IF a.Y = y THEN {<<a.X, 1>>, <<b.X, 1>>} ELSE {}
                ELSE IF lo.Y <= y /\ y <= hi.Y
                THEN {<<lo.X * (hi.Y - lo.Y) + (y - lo.Y) * (hi.X - lo.X), hi.Y - lo.Y>>}
                ELSE {}
            : e \in EdgesOf(points) }

\* fraction q is at most fraction r
FracLeq(q, r) == q[1] * r[2] <= r[1] * q[2]

\* the integer x is within 1 of fraction q
Within1(x, q) == Abs(x * q[2] - q[1]) <= q[2]

\* the pixels set on scanline y form one span whose ends are within 1 pixel of
\* the smallest and of the largest point where an edge meets the scanline
SpanNearExtremes(points, y) ==
    LET xs == RowXs(Changed, y)
        M == Meets(points, y)
        least == CHOOSE q \in M : \A r \in M : FracLeq(q, r)
        most == CHOOSE q \in M : \A r \in M : FracLeq(r, q)
    IN  /\ Within1(SetMin(xs), least)
        /\ Within1(SetMax(xs), most)
        /\ \A x \in SetMin(xs)..SetMax(xs) : x \in xs

\* C13: for every convex polygon with integer vertices, on every scanline the
\* span DrawFilledPolygon sets has its left end within 1 pixel of the smallest
\* and its right end within 1 pixel of the largest edge intersection of the
\* scanline, and every pixel between the two ends is set.
C13_ConvexSpans ==
    (op.name = "DrawFilledPolygon" /\ IsConvex(op.pts)) =>
        /\ ~fault
        /\ \A y \in ExtentY(op.pts) :
              /\ RowXs(Changed, y) # {}
              /\ SpanNearExtremes(op.pts, y)

\* C13 on the scanlines on which the call set a pixel
C13_ConvexSpansWhereSet ==
    (op.name = "DrawFilledPolygon" /\ IsConvex(op.pts)) =>
        /\ ~fault
        /\ \A y \in ExtentY(op.pts) :
              RowXs(Changed, y) # {} => SpanNearExtremes(op.pts, y)

\* what holds of C13 in part_000 on the scanlines on which it sets a pixel
C13_ConvexSpansWhereSet000 == impl = "part_000" => C13_ConvexSpansWhereSet

(***************************************************************************)
(* The fractal generators.  Their float64 expressions are computed in      *)
(* fixed point with FixOne units to 1: the truncation int(f) of Go is Quot *)
(* by the denominator.                                                     *)
(***************************************************************************)
FixOne == 10000000

\* math.Cos(math.Pi/3) = 0.5000000000000001
Cos60 == 5000000

\* math.Sin(math.Pi/3) = 0.8660254037844386, and math.Sqrt(3)/2
Sin60 == 8660254

\* part_000: depth := 4
KochDepth000 == 4

\* int(math.Sqrt(3)*float64(width)/2)
TriHeight(w) == Quot(Sin60 * w, FixOne)

\* part_000: pointAtDistanceAndAngle, for distance*cos(angle) = cnum/den
\* and distance*sin(angle) = snum/den
PointAtDistanceAndAngle(from, cnum, snum, den) ==
    Point(Quot(from.X * den + cnum, den), Quot(from.Y * den + snum, den))

\* part_000: the three vertices at the angles -pi/2, -pi/2 + 2pi/3, -pi/2 + 4pi/3
KochVertices000(center, radius) ==
    << PointAtDistanceAndAngle(center, 0, -radius * FixOne, FixOne),
       PointAtDistanceAndAngle(center, radius * Sin60, radius * Cos60, FixOne),
       PointAtDistanceAndAngle(center, -radius * Sin60, radius * Cos60, FixOne) >>

\* part_000: pa, pc, pb of drawKochCurve.  With dx = k/3 and dy = l/3 the peak
\* pc lies at distance (dx, dy) rotated by -pi/3 from pa.
KochPoints000(p1, p2) ==
    LET k == p2.X - p1.X
        l == p2.Y - p1.Y
        pa == Point(p1.X + Quot(k, 3), p1.Y + Quot(l, 3))
        pb == Point(p1.X + Quot(2 * k, 3), p1.Y + Quot(2 * l, 3))
        pc == PointAtDistanceAndAngle(pa, k * Cos60 + l * Sin60,
                                      l * Cos60 - k * Sin60, 3 * FixOne)
    IN  <<pa, pc, pb>>

\* part_001: oneThird, rotated, twoThirds of drawKochSnowflakeSegment
KochPoints001(p1, p2) ==
    LET oneThird == Point(Quot(2 * p1.X + p2.X, 3), Quot(2 * p1.Y + p2.Y, 3))
        twoThirds == Point(Quot(p1.X + 2 * p2.X, 3), Quot(p1.Y + 2 * p2.Y, 3))
        deltaX == twoThirds.X - oneThird.X
        deltaY == twoThirds.Y - oneThird.Y
        rotated == Point(oneThird.X + Quot(Cos60 * deltaX - Sin60 * deltaY, FixOne),
                         oneThird.Y + Quot(Sin60 * deltaX + Cos60 * deltaY, FixOne))
    IN  <<oneThird, rotated, twoThirds>>

KochPoints(im, p1, p2) ==
    IF im = "part_000" THEN KochPoints000(p1, p2) ELSE KochPoints001(p1, p2)

\* part_001: the three vertices of the triangle on start with the given width
TriangleOn(start, w) ==
    << start,
       Point(start.X + w, start.Y),
       Point(start.X + Quot(w, 2), start.Y + TriHeight(w)) >>

\* part_001: mid1, mid2, mid3 of drawSierpinskiTriangle
SierpinskiMids(start, w) ==
    << Point(Quot(2 * start.X + start.X + w, 3), Quot(2 * start.Y + start.Y, 3)),
       Point(Quot(start.X + 2 * start.X + w, 3), Quot(2 * start.Y + start.Y, 3)),
       Point(Quot(start.X + start.X + Quot(w, 2), 2),
             Quot(start.Y + start.Y + TriHeight(w), 2)) >>

\* a pending call of a recursive function: f the function, n the depth
\* argument, d the number of nested calls it runs in, a and b its points
\* (for Sierpinski a is start), w its width
Frame(f, n, d, a, b, w) == [f |-> f, n |-> n, d |-> d, a |-> a, b |-> b, w |-> w]

\* the calls a -> b of the Koch recursion for the sides of the vertices vs
KochSides(vs, n) ==
    << Frame("koch", n, 1, vs[1], vs[2], 0),
       Frame("koch", n, 1, vs[2], vs[3], 0),
       Frame("koch", n, 1, vs[3], vs[1], 0) >>

(***************************************************************************)
(* The fractal specification: one DrawKochSnowflake or one                 *)
(* DrawSierpinskiTriangle on a fresh FracSide x FracSide canvas, one call  *)
(* of the recursive function per step.  rec.stack holds the calls still to *)
(* be made, the next one first; rec.drawn the primitives drawn so far;     *)
(* rec.entered the number of calls of the recursive function made.         *)
(***************************************************************************)
\* the side of the canvas of the fractal specification
FracSide == 12

\* the largest depth argument of part_001
MaxDepth == 2

\* the largest radius of the snowflake of part_000
KochRadiusMax == 5

\* the number of nested calls at which the goroutine stack is exhausted
DepthCap == 6

Depths == (-1)..MaxDepth

\* odd radii: for these, up to radius 5, no float64 expression of the snowflake
\* falls on a whole number, where the last bit of the float would decide the
\* truncation (for even radii center.Y + radius*sin(pi/6) does)
KochRadii == {r \in 1..KochRadiusMax : r % 2 = 1}

KochCenters == {Point(6, 6), Point(1, 1)}

FracStarts == {Point(1, 1), Point(-1, 0)}

FracWidths == {0, 6, 9}

InitFractal ==
    /\ impl \in Impls
    /\ width = FracSide
    /\ height = FracSide
    /\ max = 255
    /\ data = NewPPM(FracSide, FracSide)
    /\ fault = FALSE
    /\ op = NoCall
    /\ pre = [width |-> FracSide, height |-> FracSide, data |-> NewPPM(FracSide, FracSide)]
    /\ calls = <<>>
    /\ nops = 0
    /\ loop = NoLoop
    /\ rec = NoRec
    /\ ret = NoRet

\* the call of a fractal generator: the first calls of its recursive function
FractalEnter ==
    /\ rec.pc = "idle"
    /\ nops = 0
    /\ pre' = Snapshot
    /\ calls' = <<>>
    /\ nops' = 1
    /\ UNCHANGED <<impl, width, height, max, data, fault, loop, ret>>

\* the recursion before its first call: the calls frames are pending
Entered(frames) == [pc |-> "run", stack |-> frames, drawn |-> <<>>, entered |-> 0]

\* part_000: DrawKochSnowflake(center, radius, color)
DoDrawKochSnowflake000(center, radius, color) ==
    /\ impl = "part_000"
    /\ FractalEnter
    /\ op' = Call("DrawKochSnowflake", <<center>>, KochDepth000, radius, color)
    /\ rec' = Entered(KochSides(KochVertices000(center, radius), KochDepth000))

\* part_001: DrawKochSnowflake(n, start, width, color)
DoDrawKochSnowflake001(n, start, w, color) ==
    /\ impl = "part_001"
    /\ FractalEnter
    /\ op' = Call("DrawKochSnowflake", <<start>>, n, w, color)
    /\ rec' = Entered(KochSides(TriangleOn(start, w), n))

\* part_001: DrawSierpinskiTriangle(n, start, width, color)
DoDrawSierpinskiTriangle(n, start, w, color) ==
    /\ impl = "part_001"
    /\ FractalEnter
    /\ op' = Call("DrawSierpinskiTriangle", <<start>>, n, w, color)
    /\ rec' = Entered(<<Frame("sierpinski", n, 1, start, start, w)>>)

\* the next call of the recursive function runs
Running(f) ==
    /\ rec.pc = "run"
    /\ rec.stack # <<>>
    /\ Head(rec.stack).f = f
    /\ Head(rec.stack).d <= DepthCap

\* the next call replaces itself by the calls it makes, at depth n - 1
Recurse(frames) ==
    /\ rec' = [rec EXCEPT !.stack = frames \o Tail(rec.stack), !.entered = @ + 1]
    /\ UNCHANGED <<impl, width, height, max, data, fault, op, pre, calls, nops, loop, ret>>

\* the next call draws the primitive prim through the Set calls of res and returns
DrawLeaf(prim, res) ==
    LET cv == SetAll(impl, width, height,
                     [data |-> data, fault |-> FALSE, n |-> 0], res.cells, 1, op.color)
        failed == cv.fault \/ res.panic
    IN  /\ data' = cv.data
        /\ fault' = failed
        /\ calls' = SubSeq(res.cells, 1, cv.n)
        /\ rec' = [rec EXCEPT !.pc = IF failed THEN "panic"
                                     ELSE IF Tail(rec.stack) = <<>> THEN "done"
                                     ELSE "run",
                              !.stack = Tail(rec.stack),
                              !.drawn = Append(@, prim),
                              !.entered = @ + 1]
        /\ UNCHANGED <<impl, width, height, max, op, pre, nops, loop, ret>>

\* drawKochCurve / drawKochSnowflakeSegment at depth 0: DrawLine(p1, p2)
KochLeaf ==
    /\ Running("koch")
    /\ Head(rec.stack).n = 0
    /\ LET fr == Head(rec.stack)
       IN  DrawLeaf(<<fr.a, fr.b>>, DrawLine(impl, fr.a, fr.b))

\* drawKochCurve / drawKochSnowflakeSegment at another depth: four calls
KochSplit ==
    /\ Running("koch")
    /\ Head(rec.stack).n # 0
    /\ LET fr == Head(rec.stack)
           q == KochPoints(impl, fr.a, fr.b)
       IN  Recurse(<< Frame("koch", fr.n - 1, fr.d + 1, fr.a, q[1], 0),
                      Frame("koch", fr.n - 1, fr.d + 1, q[1], q[2], 0),
                      Frame("koch", fr.n - 1, fr.d + 1, q[2], q[3], 0),
                      Frame("koch", fr.n - 1, fr.d + 1, q[3], fr.b, 0) >>)

\* drawSierpinskiTriangle at depth 0: DrawFilledTriangle
SierpinskiLeaf ==
    /\ Running("sierpinski")
    /\ Head(rec.stack).n = 0
    /\ LET fr == Head(rec.stack)
           t == TriangleOn(fr.a, fr.w)
       IN  DrawLeaf(<<fr.a, fr.w>>, DrawFilledTriangle(impl, t[1], t[2], t[3]))

\* drawSierpinskiTriangle at another depth: its calls on start, mid1, mid2, mid3
SierpinskiSplit ==
    /\ Running("sierpinski")
    /\ Head(rec.stack).n # 0
    /\ LET fr == Head(rec.stack)
           m == SierpinskiMids(fr.a, fr.w)
           w3 == Quot(fr.w, 3)
       IN  Recurse(<< Frame("sierpinski", fr.n - 1, fr.d + 1, fr.a, fr.a, w3),
                      Frame("sierpinski", fr.n - 1, fr.d + 1, m[1], m[1], w3),
                      Frame("sierpinski", fr.n - 1, fr.d + 1, m[2], m[2], w3),
                      Frame("sierpinski", fr.n - 1, fr.d + 1, m[3], m[3], w3) >>)

\* the nesting has no end: the goroutine stack is exhausted and the program dies
StackOverflow ==
    /\ rec.pc = "run"
    /\ rec.stack # <<>>
    /\ Head(rec.stack).d > DepthCap
    /\ fault' = TRUE
    /\ rec' = [rec EXCEPT !.pc = "overflow"]
    /\ UNCHANGED <<impl, width, height, max, data, op, pre, calls, nops, loop, ret>>

NextFractal ==
    \/ \E c \in KochCenters, r \in KochRadii : DoDrawKochSnowflake000(c, r, Color)
    \/ \E n \in Depths, s \in FracStarts, w \in FracWidths :
          DoDrawKochSnowflake001(n, s, w, Color)
    \/ \E n \in Depths, s \in FracStarts, w \in FracWidths :
          DoDrawSierpinskiTriangle(n, s, w, Color)
    \/ KochLeaf
    \/ KochSplit
    \/ SierpinskiLeaf
    \/ SierpinskiSplit
    \/ StackOverflow

SpecFractal == InitFractal /\ [][NextFractal]_vars

(***************************************************************************)
(* The conversion to a bitmap, in the canvas specification.                *)
(***************************************************************************)
\* C20: ToPBM of part_001 returns a bitmap of the width and the height of the
\* image in which pixel (x, y) is true exactly when one of the R, G, B channels
\* of the source pixel (x, y) is not zero.
C20_ToPBMNonZero ==
    op.name = "ToPBM" =>
        /\ ret.width = width
        /\ ret.height = height
        /\ \A p \in CanvasCells(width, height) :
              ret.data[p.Y][p.X] = (\E i \in 1..3 : data[p.Y][p.X][i] # 0)

\* what holds of C20: the bitmap has the size of the image
C20_ToPBMSameSize ==
    op.name = "ToPBM" =>
        /\ ret.width = width
        /\ ret.height = height
        /\ DOMAIN ret.data = 0..(height - 1)
        /\ \A y \in 0..(height - 1) : DOMAIN ret.data[y] = 0..(width - 1)

\* ToPBM of an image with a pixel that is not black returns a bitmap without a
\* true bit
C20_AllFalse ==
    /\ op.name = "ToPBM"
    /\ \E p \in CanvasCells(width, height) : data[p.Y][p.X] # ZeroPixel
    /\ \A p \in CanvasCells(width, height) : ret.data[p.Y][p.X] = FALSE

(***************************************************************************)
(* Claims of the fractal specification.                                    *)
(***************************************************************************)
\* the generator has been left: by its return, by a panic of Set or by the
\* exhaustion of the stack
FractalLeft == rec.pc \in {"done", "panic", "overflow"}

\* the three vertices the snowflake starts from
KochStart ==
    IF impl = "part_000" THEN KochVertices000(op.pts[1], op.b)
    ELSE TriangleOn(op.pts[1], op.b)

\* the DrawLine calls counted as the claim counts them
KochCounted(d) ==
    /\ Len(rec.drawn) = 3 * 4^d
    /\ d = 0 => rec.drawn = << <<KochStart[1], KochStart[2]>>,
                               <<KochStart[2], KochStart[3]>>,
                               <<KochStart[3], KochStart[1]>> >>

\* C14: DrawKochSnowflake at recursion depth d >= 0 makes exactly 3 * 4^d
\* DrawLine calls, at depth 0 the 3 sides of the initial triangle (d is the
\* parameter n in part_001 and the fixed depth 4 in part_000).
C14_KochSegments ==
    (op.name = "DrawKochSnowflake" /\ op.a >= 0) =>
        /\ Len(rec.drawn) <= 3 * 4^op.a
        /\ FractalLeft => KochCounted(op.a)

\* what holds of C14 in both versions: a DrawKochSnowflake that returns has
\* made 3 * 4^d DrawLine calls
C14_SegmentsWhenReturned ==
    (op.name = "DrawKochSnowflake" /\ op.a >= 0 /\ rec.pc = "done") => KochCounted(op.a)

\* the segments are one chain that starts and ends at vertex v
ClosedChain(segs, v) ==
    /\ segs # <<>>
    /\ segs[1][1] = v
    /\ segs[Len(segs)][2] = v
    /\ \A i \in 1..(Len(segs) - 1) : segs[i][2] = segs[i + 1][1]

\* C19: the DrawLine calls of DrawKochSnowflake, in call order, form one
\* closed chain: each segment starts where the one before ended, the first
\* starts at the first vertex of the triangle and the last ends there, at
\* every depth d >= 0.
C19_KochClosedChain ==
    (op.name = "DrawKochSnowflake" /\ op.a >= 0) =>
        /\ \A i \in 1..(Len(rec.drawn) - 1) : rec.drawn[i][2] = rec.drawn[i + 1][1]
        /\ FractalLeft => ClosedChain(rec.drawn, KochStart[1])

\* what holds of C19 in both versions: the segments of a DrawKochSnowflake
\* that returns are one closed chain
C19_ChainWhenReturned ==
    (op.name = "DrawKochSnowflake" /\ op.a >= 0) =>
        /\ \A i \in 1..(Len(rec.drawn) - 1) : rec.drawn[i][2] = rec.drawn[i + 1][1]
        /\ rec.pc = "done" => ClosedChain(rec.drawn, KochStart[1])

\* C15: DrawSierpinskiTriangle at depth n >= 1 recurses on exactly three
\* sub-triangles, each at depth n - 1 and a third of the width, anchored at
\* three pairwise distinct points, so that depth n gives exactly 3^n
\* DrawFilledTriangle calls at depth 0.
C15_SierpinskiThree ==
    (op.name = "DrawSierpinskiTriangle" /\ op.a >= 1 /\ rec.pc = "done") =>
        Len(rec.drawn) = 3^op.a

\* what the code does in place of C15: a call that returns has made 4^n
\* DrawFilledTriangle calls
C15_SierpinskiFour ==
    (op.name = "DrawSierpinskiTriangle" /\ op.a >= 0 /\ rec.pc = "done") =>
        Len(rec.drawn) = 4^op.a

\* mid1 and mid2 of drawSierpinskiTriangle are the same point
C15_TwoAnchorsCoincide ==
    \A s \in FracStarts, w \in FracWidths :
        SierpinskiMids(s, w)[1] = SierpinskiMids(s, w)[2]

\* C16: DrawKochSnowflake and DrawSierpinskiTriangle terminate for every depth
\* n >= 0, depth 0 without recursing, and a call with a negative depth is
\* rejected before any recursive call or drawing: the nesting of the calls
\* never exceeds n + 1 for n >= 0, and for n < 0 nothing is drawn and no call
\* is nested in another.
C16_DepthBounded ==
    op.name \in {"DrawKochSnowflake", "DrawSierpinskiTriangle"} =>
        /\ rec.pc # "overflow"
        /\ \A i \in 1..Len(rec.stack) :
              IF op.a >= 0
              THEN rec.stack[i].d <= op.a + 1 /\ rec.stack[i].n = op.a + 1 - rec.stack[i].d
              ELSE rec.stack[i].d = 1
        /\ op.a < 0 => rec.drawn = <<>>

\* what holds of C16: for n >= 0 the nesting of the calls never exceeds n + 1,
\* and the depth argument of a call at nesting d is n + 1 - d
C16_BoundedFromDepth0 ==
    (op.name \in {"DrawKochSnowflake", "DrawSierpinskiTriangle"} /\ op.a >= 0) =>
        /\ rec.pc # "overflow"
        /\ \A i \in 1..Len(rec.stack) :
              rec.stack[i].d <= op.a + 1 /\ rec.stack[i].n = op.a + 1 - rec.stack[i].d

\* the number of calls of the recursive function a call at depth n >= 0 makes,
\* itself included, when every call at another depth than 0 makes four
CallsOf(n) == (4^(n + 1) - 1) \div 3

RECURSIVE Pending(_)
Pending(stack) ==
    IF stack = <<>> THEN 0 ELSE CallsOf(Head(stack).n) + Pending(Tail(stack))

\* what holds of C16: a generator called with n >= 0 terminates.  The calls made
\* and the calls still to be made add up to the same number at every step, so
\* every step takes one from the calls still to be made.
C16_TerminatesFromDepth0 ==
    (op.name \in {"DrawKochSnowflake", "DrawSierpinskiTriangle"} /\ op.a >= 0
        /\ rec.pc \in {"run", "done"}) =>
        /\ rec.entered + Pending(rec.stack) =
              (IF op.name = "DrawKochSnowflake" THEN 3 ELSE 1) * CallsOf(op.a)
        /\ (rec.pc = "done") = (rec.stack = <<>>)

(***************************************************************************)
(* The rectangle specification: two DrawFilledRectangle calls on a         *)
(* RectMax x RectMax canvas, the first in another colour than the second.  *)
(***************************************************************************)
\* the side of the canvas of the rectangle specification
RectMax == 3

RectPoints == {Point(x, y) : x \in {0, 1, RectMax - 1}, y \in {0, 1, RectMax - 1}}

\* widths and heights: negative, zero, inside the canvas and beyond it
RectExtents == (-1)..RectMax

InitRectangle ==
    /\ impl \in Impls
    /\ width = RectMax
    /\ height = RectMax
    /\ max = 255
    /\ data = NewPPM(RectMax, RectMax)
    /\ fault = FALSE
    /\ op = NoCall
    /\ pre = [width |-> RectMax, height |-> RectMax, data |-> NewPPM(RectMax, RectMax)]
    /\ calls = <<>>
    /\ nops = 0
    /\ loop = NoLoop
    /\ rec = NoRec
    /\ ret = NoRet

NextRectangle ==
    \/ /\ nops = 0
       /\ \E p \in RectPoints, w \in RectExtents, h \in RectExtents :
             DoDrawFilledRectangle(p, w, h, Pixel(1, 2, 3))
    \/ /\ nops = 1
       /\ \E p \in RectPoints, w \in RectExtents, h \in RectExtents :
             DoDrawFilledRectangle(p, w, h, Color)

SpecRectangle == InitRectangle /\ [][NextRectangle]_vars

\* the pixels [p.X, p.X+w-1] x [p.Y, p.Y+h-1]
RectCells(p, w, h) ==
    {Point(x, y) : x \in p.X..(p.X + w - 1), y \in p.Y..(p.Y + h - 1)}

\* C17: DrawFilledRectangle(p, width, height, color) on a canvas that contains
\* the rectangle sets exactly the width*height pixels of
\* [p.X, p.X+width-1] x [p.Y, p.Y+height-1] to color and leaves every other
\* pixel as it was; with width <= 0 or height <= 0 it sets no pixel.
C17_FilledRectangle ==
    op.name = "DrawFilledRectangle" =>
        LET p == op.pts[1]
            rect == RectCells(p, op.a, op.b)
        IN  /\ (op.a <= 0 \/ op.b <= 0) =>
                  /\ ~fault
                  /\ calls = <<>>
                  /\ data = pre.data
            /\ (op.a > 0 /\ op.b > 0 /\ rect \subseteq CanvasCells(pre.width, pre.height)) =>
                  /\ ~fault
                  /\ Range(calls) = rect
                  /\ Cardinality(rect) = op.a * op.b
                  /\ \A q \in CanvasCells(width, height) :
                        data[q.Y][q.X] = IF q \in rect THEN op.color
                                         ELSE pre.data[q.Y][q.X]

\* a rectangle of more than one row and column has been drawn inside the
\* canvas over pixels of the other colour, and a pixel of the other colour
\* outside the rectangle is as it was
C17_Witness ==
    /\ op.name = "DrawFilledRectangle"
    /\ nops = 2
    /\ ~fault
    /\ op.a >= 2
    /\ op.b >= 2
    /\ RectCells(op.pts[1], op.a, op.b) \subseteq CanvasCells(width, height)
    /\ \E q \in RectCells(op.pts[1], op.a, op.b) :
          pre.data[q.Y][q.X] = Pixel(1, 2, 3) /\ data[q.Y][q.X] = Color
    /\ \E q \in CanvasCells(width, height) \ RectCells(op.pts[1], op.a, op.b) :
          data[q.Y][q.X] = Pixel(1, 2, 3)

(***************************************************************************)
(* The two DrawLine versions side by side, in the line specification.      *)
(***************************************************************************)
\* C18: the two Bresenham formulations are equivalent: for every pair of
\* endpoints p1, p2 the DrawLine of part_000 and the DrawLine of part_001 set
\* the same set of pixels.
C18_SamePixels ==
    loop.pc # "idle" =>
        Range(DrawLineCells("part_000", loop.p1, loop.p2))
            = Range(DrawLineCells("part_001", loop.p1, loop.p2))

\* C18 on endpoints inside the canvas, where no Set call of either version is
\* out of range
C18_SamePixelsInside ==
    (/\ loop.pc # "idle"
     /\ InRange(width, height, loop.p1.X, loop.p1.Y)
     /\ InRange(width, height, loop.p2.X, loop.p2.Y)) => C18_SamePixels

\* what holds of C18: the two versions call Set on equally many cells, and the
\* i-th cells of the two are the same or neighbours
C18_NeighbouringPaths ==
    loop.pc # "idle" =>
        LET a == DrawLineCells("part_000", loop.p1, loop.p2)
            b == DrawLineCells("part_001", loop.p1, loop.p2)
        IN  /\ Len(a) = Len(b)
            /\ \A i \in 1..Len(a) :
                  Abs(a[i].X - b[i].X) <= 1 /\ Abs(a[i].Y - b[i].Y) <= 1

\* what holds of C18: on horizontal, vertical and diagonal lines the two
\* versions call Set on the same cells in the same order
C18_SameOnStraightLines ==
    (/\ loop.pc # "idle"
     /\ \/ loop.p1.X = loop.p2.X
        \/ loop.p1.Y = loop.p2.Y
        \/ Abs(loop.p2.X - loop.p1.X) = Abs(loop.p2.Y - loop.p1.Y)) =>
        DrawLineCells("part_000", loop.p1, loop.p2)
            = DrawLineCells("part_001", loop.p1, loop.p2)

(***************************************************************************)
(* The transformation specification: an image of any shape up to TransMax  *)
(* whose pixels are all different, as ReadPPM or Set calls leave it, and   *)
(* any max value, then up to MaxOps of Invert, Flip, Flop and Rotate90CW.  *)
(***************************************************************************)
TransMax == 3

TransDims == 0..TransMax

\* the values that distinguish the images
Seeds == {0, 100, 250}

\* max: part_000 keeps a uint8, part_001 the int that ReadPPM parsed
Maxes == {-1, 0, 100, 255, 300}

\* a w x h image with a different pixel in every cell
Image(w, h, k) ==
    [y \in 0..(h - 1) |-> [x \in 0..(w - 1) |->
        Pixel((k + x) % 256, (k + y) % 256, 255 - k)]]

InitTransform ==
    /\ impl \in Impls
    /\ width \in TransDims
    /\ height \in TransDims
    /\ max \in Maxes
    /\ (impl = "part_000" => max >= 0 /\ max < 256)
    /\ \E k \in Seeds : data = Image(width, height, k)
    /\ fault = FALSE
    /\ op = NoCall
    /\ pre = [width |-> width, height |-> height, data |-> data]
    /\ calls = <<>>
    /\ nops = 0
    /\ loop = NoLoop
    /\ rec = NoRec
    /\ ret = NoRet

NextTransform ==
    \/ DoInvert
    \/ DoFlip
    \/ DoFlop
    \/ DoRotate90CW

SpecTransform == InitTransform /\ [][NextTransform]_vars

\* the image before the last call
PreImage == [width |-> pre.width, height |-> pre.height, data |-> pre.data]

\* C21: Flip and Flop are involutions that preserve the dimensions: Flip after
\* Flip and Flop after Flop restore every pixel; one Flip moves pixel (x, y) to
\* (width-1-x, y), one Flop moves it to (x, height-1-y); for an odd width or
\* height the middle column or row stays in place.
C21_FlipFlopInvolution ==
    /\ op.name \in {"Flip", "Flop"} => width = pre.width /\ height = pre.height
    /\ op.name = "Flip" =>
          /\ \A y \in 0..(height - 1) : \A x \in 0..(width - 1) :
                data[y][width - 1 - x] = pre.data[y][x]
          /\ Flip(impl, data, width) = pre.data
    /\ op.name = "Flop" =>
          /\ \A y \in 0..(height - 1) : \A x \in 0..(width - 1) :
                data[height - 1 - y][x] = pre.data[y][x]
          /\ Flop(impl, data, width, height) = pre.data

\* a Flip has changed an image of odd width, whose middle column stayed
C21_Witness ==
    /\ op.name = "Flip"
    /\ width = TransMax
    /\ height > 0
    /\ data # pre.data
    /\ data[0][Quot(width, 2)] = pre.data[0][Quot(width, 2)]

\* C22: Rotate90CW moves the pixel at (x, y) of a w x h image to (h-1-y, x) of
\* an h x w image, and four consecutive Rotate90CW calls restore the width,
\* the height and every pixel, for every w, h >= 0.
C22_Rotate90CW ==
    op.name = "Rotate90CW" =>
        /\ width = pre.height
        /\ height = pre.width
        /\ \A y \in 0..(pre.height - 1) : \A x \in 0..(pre.width - 1) :
              data[x][pre.height - 1 - y] = pre.data[y][x]
        /\ LET r2 == Rotate90CW(data, width, height)
               r3 == Rotate90CW(r2.data, r2.width, r2.height)
               r4 == Rotate90CW(r3.data, r3.width, r3.height)
           IN  r4 = PreImage

\* a Rotate90CW has turned an image that is not square
C22_Witness ==
    /\ op.name = "Rotate90CW"
    /\ pre.width > 1
    /\ pre.height > pre.width
    /\ data[0][0] = pre.data[pre.height - 1][0]

\* C23: Invert replaces every channel value v by (max - v) modulo 256, so two
\* consecutive Invert calls restore every pixel, for every pixel value and
\* every max, values greater than max included.
C23_InvertTwice ==
    op.name = "Invert" =>
        /\ width = pre.width
        /\ height = pre.height
        /\ \A y \in 0..(height - 1) : \A x \in 0..(width - 1) : \A i \in 1..3 :
              data[y][x][i] = (max - pre.data[y][x][i]) % 256
        /\ Invert(data, max) = pre.data

\* an Invert has wrapped a channel value that was greater than max
C23_Witness ==
    /\ op.name = "Invert"
    /\ width > 0
    /\ height > 0
    /\ pre.data[0][0][1] > max
    /\ data[0][0][1] = 256 + max - pre.data[0][0][1]

\* the cell lies in the bounding box of the points p1 and p2
InBox(cell, p1, p2) ==
    /\ Min(p1.X, p2.X) <= cell.X
    /\ cell.X <= Max(p1.X, p2.X)
    /\ Min(p1.Y, p2.Y) <= cell.Y
    /\ cell.Y <= Max(p1.Y, p2.Y)

\* C24: DrawLine(p1, p2, color) only calls Set on cells inside the bounding box
\* [min(x1,x2), max(x1,x2)] x [min(y1,y2), max(y1,y2)] of its endpoints, so a
\* line whose endpoints are both inside the canvas never attempts a write that
\* is out of range.
C24_LineInBoundingBox ==
    op.name = "DrawLine" =>
        /\ \A i \in 1..Len(calls) : InBox(calls[i], loop.p1, loop.p2)
        /\ (/\ InRange(width, height, loop.p1.X, loop.p1.Y)
            /\ InRange(width, height, loop.p2.X, loop.p2.Y)) =>
              /\ ~fault
              /\ \A i \in 1..Len(calls) : InRange(width, height, calls[i].X, calls[i].Y)

\* a slanted line between two cells of the canvas has been drawn to its end
C24_Witness ==
    /\ loop.pc = "done"
    /\ InRange(width, height, loop.p1.X, loop.p1.Y)
    /\ InRange(width, height, loop.p2.X, loop.p2.Y)
    /\ Abs(loop.p2.X - loop.p1.X) = 1
    /\ Abs(loop.p2.Y - loop.p1.Y) = 2
    /\ Len(calls) = 3

====
